---- MODULE Spec2Model ----
(***************************************************************************)
(* Model of the foot-traffic pipeline (process_traffic.py and its three    *)
(* sibling variants): a run collects spreadsheets, extracts hourly records,*)
(* enriches them and upserts them into hourly_foot_traffic.parquet.        *)
(*                                                                         *)
(* Conventions of the model                                                *)
(*   - a calendar date is the number of days since Monday 2024-01-01;      *)
(*   - an instant is the number of hours since 2024-01-01T00:00Z;          *)
(*   - a DateTime is the number of hours since 2024-01-01T00:00;           *)
(*   - a float is an integer number of 1/10000ths (20.0 is 200000), which  *)
(*     keeps x * 0.95 exact for every count with at most two decimals;     *)
(*   - a Python str that the code inspects is a sequence of characters;    *)
(*     a str cell of a sheet is named by a TLA+ string and Chars gives     *)
(*     its characters.                                                     *)
(***************************************************************************)
EXTENDS Integers, Sequences, FiniteSets, TLC

(***************************************************************************)
(* Bounds of the model.                                                    *)
(***************************************************************************)
\* runs started in one behaviour
MaxRuns == 2
\* messages or files in the batch of one run
MaxFiles == 2
\* data rows below the header row of one spreadsheet
MaxRows == 1

(***************************************************************************)
(* Sequences and strings.                                                  *)
(***************************************************************************)
Range(s) == {s[i] : i \in 1..Len(s)}

RECURSIVE Concat(_)
\* all_data.extend(data) over a sequence of lists
Concat(ss) == IF ss = <<>> THEN <<>> ELSE Head(ss) \o Concat(Tail(ss))

Chr_upper == <<"A","B","C","D","E","F","G","H","I","J","K","L","M",
               "N","O","P","Q","R","S","T","U","V","W","X","Y","Z">>
Chr_lower == <<"a","b","c","d","e","f","g","h","i","j","k","l","m",
               "n","o","p","q","r","s","t","u","v","w","x","y","z">>

\* str.lower() of one character
LowerChar(c) ==
    IF \E i \in 1..Len(Chr_upper) : Chr_upper[i] = c
    THEN Chr_lower[CHOOSE i \in 1..Len(Chr_upper) : Chr_upper[i] = c]
    ELSE c

\* str.lower()
Lower(s) == [i \in 1..Len(s) |-> LowerChar(s[i])]

\* sub in s
Contains(s, sub) ==
    \E i \in 1..(Len(s) - Len(sub) + 1) : SubSeq(s, i, i + Len(sub) - 1) = sub

\* s.replace(c, '') for a single character c
Remove(s, c) == SelectSeq(s, LAMBDA x : x # c)

Digits == <<"0","1","2","3","4","5","6","7","8","9">>

IsDigitChar(c) == \E i \in 1..10 : Digits[i] = c

DigitVal(c) == (CHOOSE i \in 1..10 : Digits[i] = c) - 1

\* str.isdigit(): non-empty and every character a digit
IsDigit(s) == s # <<>> /\ \A i \in 1..Len(s) : IsDigitChar(s[i])

RECURSIVE NatOfDigits(_)
\* value of a string of digits
NatOfDigits(s) ==
    IF s = <<>> THEN 0
    ELSE 10 * NatOfDigits(SubSeq(s, 1, Len(s) - 1)) + DigitVal(s[Len(s)])

RECURSIVE DigitsOfNat(_)
\* str(n) for n >= 0
DigitsOfNat(n) ==
    IF n < 10 THEN <<Digits[n + 1]>>
    ELSE DigitsOfNat(n \div 10) \o <<Digits[(n % 10) + 1]>>

\* str(n) for an int
StrOfInt(n) == IF n < 0 THEN <<"-">> \o DigitsOfNat(0 - n) ELSE DigitsOfNat(n)

S_Date == <<"D","a","t","e">>
S_time == <<"t","i","m","e">>
S_hour == <<"h","o","u","r">>
S_date == <<"d","a","t","e">>
S_total == <<"t","o","t","a","l">>
S_average == <<"a","v","e","r","a","g","e">>
S_minimum == <<"m","i","n","i","m","u","m">>
S_maximum == <<"m","a","x","i","m","u","m">>
S_entering == <<"e","n","t","e","r","i","n","g">>
S_inside == <<"i","n","s","i","d","e">>
S_melbourne == <<"m","e","l","b","o","u","r","n","e">>
S_sydney == <<"s","y","d","n","e","y">>

(***************************************************************************)
(* Configuration.                                                          *)
(***************************************************************************)
\* FOOT_TRAFFIC_MULTIPLIER = 0.95, in hundredths
FOOT_TRAFFIC_MULTIPLIER == 95

Venues == <<"Melbourne", "Sydney">>

\* venue.lower()
VenueLower(v) == IF v = "Melbourne" THEN S_melbourne ELSE S_sydney

\* venue -> weekday (0 = Monday) -> <<open_hour, close_hour>>
VENUE_OPERATING_HOURS ==
    [v \in {"Melbourne", "Sydney"} |->
        [d \in 0..6 |-> CASE d = 4 -> <<12, 24>>
                          [] d = 5 -> <<12, 25>>
                          [] OTHER -> <<12, 23>>]]

\* pd.Timestamp(date).dayofweek: day 0 of the model is a Monday
DayOfWeek(date) == date % 7

\* the mutant of is_venue_open: the wraparound branch taken from close >= 24
is_venue_open_ge24(date, hour, venue) ==
    IF venue \notin DOMAIN VENUE_OPERATING_HOURS THEN FALSE
    ELSE LET hours == VENUE_OPERATING_HOURS[venue][DayOfWeek(date)]
         IN  IF hours[2] >= 24
             THEN hour >= hours[1] \/ hour < hours[2] - 24
             ELSE hours[1] <= hour /\ hour < hours[2]

is_venue_open(date, hour, venue) ==
    IF venue \notin DOMAIN VENUE_OPERATING_HOURS THEN FALSE
    ELSE LET hours == VENUE_OPERATING_HOURS[venue][DayOfWeek(date)]
         IN  IF hours[2] > 24
             THEN hour >= hours[1] \/ hour < hours[2] - 24
             ELSE hours[1] <= hour /\ hour < hours[2]

(***************************************************************************)
(* Date attribution.                                                       *)
(***************************************************************************)
\* UTC offset of Australia/Melbourne in 2024: AEDT (+11) until 2024-04-06T16:00Z
\* and from 2024-10-05T16:00Z, AEST (+10) between
MelbourneUtcOffset(ts) == IF ts < 2320 \/ ts >= 6688 THEN 11 ELSE 10

\* email_date.astimezone(MELBOURNE_TZ), as hours of Melbourne wall-clock time
AsMelbourne(ts) == ts + MelbourneUtcOffset(ts)

\* the mutant of get_data_date: the conversion to Melbourne time left out
get_data_date_utc(ts) == (ts - 24) \div 24

\* (email_date_melbourne - timedelta(days=1)).date()
get_data_date(ts) == ((AsMelbourne(ts) - 24) \div 24)

(***************************************************************************)
(* Spreadsheet cells, as pandas hands them to the extraction loops.        *)
(*   k = "nan"   an empty cell (pd.isna)                                   *)
(*   k = "int"   a Python int n                                            *)
(*   k = "float" a float, n in hundredths                                  *)
(*   k = "time"  a pd.Timestamp / datetime.time whose hour is n            *)
(*   k = "str"   a str, Chars(s) its characters                            *)
(* A sheet is a sequence of rows, a row a sequence of cells.               *)
(***************************************************************************)
NaN == [k |-> "nan", n |-> 0, s |-> ""]
IntCell(n) == [k |-> "int", n |-> n, s |-> ""]
FloatCell(n) == [k |-> "float", n |-> n, s |-> ""]
TimeCell(h) == [k |-> "time", n |-> h, s |-> ""]
StrCell(s) == [k |-> "str", n |-> 0, s |-> s]

\* the characters of the strings that occur in the sheets of the model
Chars(s) ==
    CASE s = "Date / time" -> <<"D","a","t","e"," ","/"," ","t","i","m","e">>
      [] s = "Visitors inside" ->
           <<"V","i","s","i","t","o","r","s"," ","i","n","s","i","d","e">>
      [] s = "Visitors entering" ->
           <<"V","i","s","i","t","o","r","s"," ","e","n","t","e","r","i","n","g">>
      [] s = "Time" -> <<"T","i","m","e">>
      [] s = "Melbourne Inside" ->
           <<"M","e","l","b","o","u","r","n","e"," ","I","n","s","i","d","e">>
      [] s = "Melbourne Entering" ->
           <<"M","e","l","b","o","u","r","n","e"," ","E","n","t","e","r","i","n","g">>
      [] s = "Sydney Inside" -> <<"S","y","d","n","e","y"," ","I","n","s","i","d","e">>
      [] s = "Sydney Entering" ->
           <<"S","y","d","n","e","y"," ","E","n","t","e","r","i","n","g">>
      [] s = "23:00" -> <<"2","3",":","0","0">>
      [] s = "08:00" -> <<"0","8",":","0","0">>
      [] s = "Total" -> <<"T","o","t","a","l">>
      [] s = "AVERAGE" -> <<"A","V","E","R","A","G","E">>
      [] s = "12:00 Total" -> <<"1","2",":","0","0"," ","T","o","t","a","l">>
      [] s = "24:00" -> <<"2","4",":","0","0">>
      [] s = "n/a" -> <<"n","/","a">>
      [] s = "5-10" -> <<"5","-","1","0">>

\* pd.isna(cell)
IsNa(cell) == cell.k = "nan"

\* a value or an exception
Ok(v) == [ok |-> TRUE, v |-> v]
Raise == [ok |-> FALSE, v |-> 0]

\* str(x) of a float given in hundredths: repr keeps one decimal at least
StrOfFloat(n) ==
    LET a == IF n < 0 THEN 0 - n ELSE n
        frac == a % 100
        fs == IF frac % 10 = 0 THEN <<Digits[(frac \div 10) + 1]>>
              ELSE <<Digits[(frac \div 10) + 1], Digits[(frac % 10) + 1]>>
    IN  (IF n < 0 THEN <<"-">> ELSE <<>>) \o DigitsOfNat(a \div 100) \o <<".">> \o fs

\* str(cell)
StrOf(cell) ==
    CASE cell.k = "str" -> Chars(cell.s)
      [] cell.k = "int" -> StrOfInt(cell.n)
      [] cell.k = "float" -> StrOfFloat(cell.n)
      [] cell.k = "time" -> DigitsOfNat(cell.n) \o <<":", "0", "0", ":", "0", "0">>
      [] OTHER -> <<"n", "a", "n">>

\* index of the first c in s, 0 when there is none
IndexOf(s, c) ==
    IF \E i \in 1..Len(s) : s[i] = c
    THEN CHOOSE i \in 1..Len(s) : s[i] = c /\ \A j \in 1..(i - 1) : s[j] # c
    ELSE 0

\* int(s) of a str: an optional sign and digits, anything else raises ValueError
IntOfStr(s) ==
    CASE IsDigit(s) -> Ok(NatOfDigits(s))
      [] Len(s) > 1 /\ s[1] = "-" /\ IsDigit(Tail(s)) -> Ok(0 - NatOfDigits(Tail(s)))
      [] Len(s) > 1 /\ s[1] = "+" /\ IsDigit(Tail(s)) -> Ok(NatOfDigits(Tail(s)))
      [] OTHER -> Raise

\* digits after the decimal point, as 1/10000ths (at most four digits)
FracOfDigits(s) ==
    LET padded == SubSeq(s \o <<"0", "0", "0", "0">>, 1, 4)
    IN  NatOfDigits(padded)

\* float(s) of a str: sign, digits, at most one point; anything else raises
FloatOfStr(s) ==
    LET neg == s # <<>> /\ s[1] = "-"
        body == IF s # <<>> /\ (s[1] = "-" \/ s[1] = "+") THEN Tail(s) ELSE s
        dot == IndexOf(body, ".")
        ip == IF dot = 0 THEN body ELSE SubSeq(body, 1, dot - 1)
        fp == IF dot = 0 THEN <<>> ELSE SubSeq(body, dot + 1, Len(body))
        wellFormed == /\ \A i \in 1..Len(ip) : IsDigitChar(ip[i])
                      /\ \A i \in 1..Len(fp) : IsDigitChar(fp[i])
                      /\ Len(ip) + Len(fp) > 0
                      /\ Len(fp) <= 4
        mag == NatOfDigits(ip) * 10000 + FracOfDigits(fp)
    IN  IF wellFormed THEN Ok(IF neg THEN 0 - mag ELSE mag) ELSE Raise

\* float(cell)
FloatOf(cell) ==
    CASE cell.k = "int" -> Ok(cell.n * 10000)
      [] cell.k = "float" -> Ok(cell.n * 100)
      [] cell.k = "str" -> FloatOfStr(Chars(cell.s))
      [] OTHER -> Raise

\* any(word in s.lower() for word in ['total', 'average', 'minimum', 'maximum'])
HasSummaryWord(s) ==
    LET l == Lower(s)
    IN  Contains(l, S_total) \/ Contains(l, S_average)
        \/ Contains(l, S_minimum) \/ Contains(l, S_maximum)

\* pd.to_datetime(s).hour for a str s of the form H:MM or H:MM:SS
ToDatetimeHour(s) ==
    LET c == IndexOf(s, ":")
        hh == SubSeq(s, 1, c - 1)
        rest == SubSeq(s, c + 1, Len(s))
        c2 == IndexOf(rest, ":")
        mm == IF c2 = 0 THEN rest ELSE SubSeq(rest, 1, c2 - 1)
        ss == IF c2 = 0 THEN <<"0">> ELSE SubSeq(rest, c2 + 1, Len(rest))
    IN  IF /\ c > 1
           /\ IsDigit(hh) /\ Len(hh) <= 2 /\ NatOfDigits(hh) <= 23
           /\ IsDigit(mm) /\ Len(mm) <= 2 /\ NatOfDigits(mm) <= 59
           /\ IsDigit(ss) /\ Len(ss) <= 2 /\ NatOfDigits(ss) <= 59
        THEN Ok(NatOfDigits(hh))
        ELSE Raise

(***************************************************************************)
(* Extraction, positional layout (process_traffic_gmail_api.py,            *)
(* process_traffic_oauth.py, process_local_files.py): read with            *)
(* header=None, so the header row is one of the rows of the sheet.         *)
(***************************************************************************)
RawRecord(date, hour, venue, entering, inside) ==
    [Date |-> date, Hour |-> hour, Venue |-> venue,
     Entering |-> entering, Inside |-> inside]

\* number of columns of the DataFrame read from a sheet
Width(sheet) ==
    IF sheet = <<>> THEN 0
    ELSE CHOOSE w \in {Len(sheet[i]) : i \in 1..Len(sheet)} :
             \A i \in 1..Len(sheet) : Len(sheet[i]) <= w

\* row[i - 1] of a DataFrame row: short rows are padded with NaN
CellAt(row, i) == IF i <= Len(row) THEN row[i] ELSE NaN

\* pd.notna(row[0]) and 'Date' in str(row[0]) and 'time' in str(row[0])
IsHeaderRow(row) ==
    /\ ~IsNa(CellAt(row, 1))
    /\ Contains(StrOf(CellAt(row, 1)), S_Date)
    /\ Contains(StrOf(CellAt(row, 1)), S_time)

\* index of the header row, 0 when header_row is None
HeaderRow(sheet) ==
    IF \E i \in 1..Len(sheet) : IsHeaderRow(sheet[i])
    THEN CHOOSE i \in 1..Len(sheet) :
             IsHeaderRow(sheet[i]) /\ \A j \in 1..(i - 1) : ~IsHeaderRow(sheet[j])
    ELSE 0

\* the hour of a data row, or Raise when the row is skipped
HourPositional(time_val) ==
    CASE time_val.k = "time" -> Ok(time_val.n)
      [] time_val.k = "str" -> ToDatetimeHour(Chars(time_val.s))
      [] OTHER -> Raise

\* float(c) if pd.notna(c) and str(c).replace('-','').replace('.','').isdigit() else 0
CountPositional(cell) ==
    IF ~IsNa(cell) /\ IsDigit(Remove(Remove(StrOf(cell), "-"), "."))
    THEN FloatOf(cell)
    ELSE Ok(0)

\* the mutant of ParseRowPositional: the inside and entering columns taken
\* the other way round
ParseRowPositionalSwapped(row, width, data_date) ==
    LET time_val == CellAt(row, 1)
        hour == HourPositional(time_val)
        melb_inside == CountPositional(CellAt(row, 3))
        melb_entering == CountPositional(CellAt(row, 2))
        syd_inside == CountPositional(CellAt(row, 5))
        syd_entering == CountPositional(CellAt(row, 4))
    IN  IF \/ IsNa(time_val)
           \/ (time_val.k = "str" /\ HasSummaryWord(Chars(time_val.s)))
           \/ ~hour.ok
           \/ width < 5
           \/ ~melb_inside.ok \/ ~melb_entering.ok
           \/ ~syd_inside.ok \/ ~syd_entering.ok
           \/ ~(0 <= hour.v /\ hour.v <= 26)
        THEN <<>>
        ELSE << RawRecord(data_date, hour.v, "Melbourne", melb_entering.v, melb_inside.v),
                RawRecord(data_date, hour.v, "Sydney", syd_entering.v, syd_inside.v) >>

\* one iteration of the loop over df_data.iterrows(): the records appended
ParseRowPositional(row, width, data_date) ==
    LET time_val == CellAt(row, 1)
        hour == HourPositional(time_val)
        melb_inside == CountPositional(CellAt(row, 2))
        melb_entering == CountPositional(CellAt(row, 3))
        syd_inside == CountPositional(CellAt(row, 4))
        syd_entering == CountPositional(CellAt(row, 5))
    IN  IF \/ IsNa(time_val)
           \/ (time_val.k = "str" /\ HasSummaryWord(Chars(time_val.s)))
           \/ ~hour.ok
           \/ width < 5
           \/ ~melb_inside.ok \/ ~melb_entering.ok
           \/ ~syd_inside.ok \/ ~syd_entering.ok
           \/ ~(0 <= hour.v /\ hour.v <= 26)
        THEN <<>>
        ELSE << RawRecord(data_date, hour.v, "Melbourne", melb_entering.v, melb_inside.v),
                RawRecord(data_date, hour.v, "Sydney", syd_entering.v, syd_inside.v) >>

\* parse_traffic_file(file_content, data_date) of the positional variants
ParsePositional(sheet, data_date) ==
    LET h == HeaderRow(sheet)
        w == Width(sheet)
    IN  IF h = 0 THEN <<>>
        ELSE Concat([i \in 1..(Len(sheet) - h) |->
                        ParseRowPositional(sheet[h + i], w, data_date)])

(***************************************************************************)
(* Extraction, labeled layout (process_traffic.py): read with the first    *)
(* row as column names.                                                    *)
(***************************************************************************)
\* the name pandas gives column i: duplicates get a ".k" suffix, an empty
\* header cell becomes "Unnamed: i"
\* (isstr: whether the name is a str, s: its characters)
ColumnName(header, i) ==
    LET c == header[i]
        dup == Cardinality({j \in 1..(i - 1) : header[j] = c})
    IN  CASE c.k = "str" /\ dup = 0 -> [isstr |-> TRUE, s |-> Chars(c.s)]
          [] c.k = "str" ->
               [isstr |-> TRUE, s |-> Chars(c.s) \o <<".">> \o DigitsOfNat(dup)]
          [] c.k = "nan" ->
               [isstr |-> TRUE,
                s |-> <<"U","n","n","a","m","e","d",":"," ">> \o DigitsOfNat(i - 1)]
          [] OTHER -> [isstr |-> FALSE, s |-> <<>>]

Columns(sheet) == [i \in 1..Len(sheet[1]) |-> ColumnName(sheet[1], i)]

\* any(word in col.lower() for word in ['time', 'hour', 'date'])
IsTimeColumn(col) ==
    LET l == Lower(col.s)
    IN  Contains(l, S_time) \/ Contains(l, S_hour) \/ Contains(l, S_date)

\* the time column: the first match, else df.columns[0]
TimeCol(cols) ==
    IF \E i \in 1..Len(cols) : IsTimeColumn(cols[i])
    THEN CHOOSE i \in 1..Len(cols) :
             IsTimeColumn(cols[i]) /\ \A j \in 1..(i - 1) : ~IsTimeColumn(cols[j])
    ELSE 1

IsEnteringCol(col, venue) ==
    LET l == Lower(col.s)
    IN  Contains(l, VenueLower(venue)) /\ Contains(l, S_entering)

IsInsideCol(col, venue) ==
    LET l == Lower(col.s)
    IN  Contains(l, VenueLower(venue)) /\ ~Contains(l, S_entering)
        /\ Contains(l, S_inside)

\* the last index of a set of column indices (each match overwrites the one
\* before), 0 for None
LastOf(matches) ==
    IF matches = {} THEN 0
    ELSE CHOOSE i \in matches : \A j \in matches : j <= i

\* entering_col after the loop over df.columns
EnteringCol(cols, venue) ==
    LastOf({i \in 1..Len(cols) : IsEnteringCol(cols[i], venue)})

\* inside_col after the loop over df.columns
InsideCol(cols, venue) ==
    LastOf({i \in 1..Len(cols) : IsInsideCol(cols[i], venue)})

\* int(x) of a float given in hundredths: truncation toward zero
TruncHundredths(n) == IF n < 0 THEN 0 - ((0 - n) \div 100) ELSE n \div 100

\* the hour of a data row, or Raise when the row is skipped
HourLabeled(time_val) ==
    CASE time_val.k = "time" -> Ok(time_val.n)
      [] time_val.k = "str" /\ IndexOf(Chars(time_val.s), ":") > 0 ->
           IntOfStr(SubSeq(Chars(time_val.s), 1, IndexOf(Chars(time_val.s), ":") - 1))
      [] time_val.k = "int" -> Ok(time_val.n)
      [] time_val.k = "float" -> Ok(TruncHundredths(time_val.n))
      [] OTHER -> Raise

\* float(row[col]) if col and pd.notna(row.get(col)) else 0
CountLabeled(row, col) ==
    IF col # 0 /\ ~IsNa(CellAt(row, col)) THEN FloatOf(CellAt(row, col)) ELSE Ok(0)

\* one iteration of the loop over df.iterrows() for one venue
ParseRowLabeled(row, time_col, entering_col, inside_col, venue, data_date) ==
    LET time_val == CellAt(row, time_col)
        hour == HourLabeled(time_val)
        entering == CountLabeled(row, entering_col)
        inside == CountLabeled(row, inside_col)
    IN  IF IsNa(time_val) \/ ~hour.ok \/ ~(0 <= hour.v /\ hour.v <= 26)
           \/ ~entering.ok \/ ~inside.ok
        THEN <<>>
        ELSE << RawRecord(data_date, hour.v, venue, entering.v, inside.v) >>

\* the records of one venue: nothing when neither column is found
ParseVenueLabeled(sheet, venue, data_date) ==
    LET cols == Columns(sheet)
        time_col == TimeCol(cols)
        entering_col == EnteringCol(cols, venue)
        inside_col == InsideCol(cols, venue)
    IN  IF entering_col = 0 /\ inside_col = 0 THEN <<>>
        ELSE Concat([i \in 1..(Len(sheet) - 1) |->
                        ParseRowLabeled(sheet[i + 1], time_col, entering_col,
                                        inside_col, venue, data_date)])

\* parse_traffic_file(file_content, data_date) of process_traffic.py; a sheet
\* without rows or with a column name that is not a str raises inside the
\* outer try, which returns []
ParseLabeled(sheet, data_date) ==
    IF sheet = <<>> \/ sheet[1] = <<>>
       \/ \E i \in 1..Len(sheet[1]) : ~Columns(sheet)[i].isstr
    THEN <<>>
    ELSE Concat([v \in 1..Len(Venues) |-> ParseVenueLabeled(sheet, Venues[v], data_date)])

(***************************************************************************)
(* Record Enricher (process_data, and the same lines of the mains).        *)
(***************************************************************************)
\* the mutant of ApplyMultiplier: the correction applied twice
ApplyMultiplierTwice(x) == (((x * FOOT_TRAFFIC_MULTIPLIER) \div 100) * FOOT_TRAFFIC_MULTIPLIER) \div 100

\* df['Entering'] * FOOT_TRAFFIC_MULTIPLIER
ApplyMultiplier(x) == (x * FOOT_TRAFFIC_MULTIPLIER) \div 100

\* pd.to_datetime(df['Date']) + pd.to_timedelta(df['Hour'], unit='h')
MakeDateTime(date, hour) == date * 24 + hour

\* the mutant of EnrichRow: an hour past 23 rolled over into the next date
EnrichRowRolled(raw) ==
    [DateTime |-> MakeDateTime(raw.Date, raw.Hour),
     Date |-> raw.Date + (raw.Hour \div 24),
     Hour |-> raw.Hour % 24,
     Venue |-> raw.Venue,
     Entering |-> ApplyMultiplier(raw.Entering),
     Inside |-> raw.Inside,
     IsOpen |-> is_venue_open(raw.Date, raw.Hour, raw.Venue)]

\* one row of the DataFrame after the three column assignments
EnrichRow(raw) ==
    [DateTime |-> MakeDateTime(raw.Date, raw.Hour),
     Date |-> raw.Date,
     Hour |-> raw.Hour,
     Venue |-> raw.Venue,
     Entering |-> ApplyMultiplier(raw.Entering),
     Inside |-> raw.Inside,
     IsOpen |-> is_venue_open(raw.Date, raw.Hour, raw.Venue)]

\* the order of str values that sort_values uses on the Venue column
VenueRank(v) == IF v = "Melbourne" THEN 1 ELSE 2

\* a sorts at or before b under ['DateTime', 'Venue']
KeyLeq(a, b) ==
    \/ a.DateTime < b.DateTime
    \/ a.DateTime = b.DateTime /\ VenueRank(a.Venue) <= VenueRank(b.Venue)

\* the mutant of SortValues: the rows are left in the order they came in
SortValuesNot(df) == df

RECURSIVE SortValues(_)
\* df.sort_values(['DateTime', 'Venue']).reset_index(drop=True): the sort on
\* several columns is stable, rows with equal keys keep their order
SortValues(df) ==
    IF df = <<>> THEN <<>>
    ELSE LET rest == SortValues(SubSeq(df, 1, Len(df) - 1))
             x == df[Len(df)]
             p == Cardinality({i \in 1..Len(rest) : KeyLeq(rest[i], x)})
         IN  SubSeq(rest, 1, p) \o <<x>> \o SubSeq(rest, p + 1, Len(rest))

\* the DataFrame built from all_data, before the sort
Enrich(all_data) == [i \in 1..Len(all_data) |-> EnrichRow(all_data[i])]

\* process_data after the loop over the files: the sorted DataFrame
ProcessData(all_data) == SortValues(Enrich(all_data))

(***************************************************************************)
(* Merge Store (merge_with_existing, save_to_parquet).                     *)
(* The file hourly_foot_traffic.parquet is                                 *)
(*   exists    os.path.exists(filename)                                    *)
(*   complete  the footer is written: pd.read_parquet can read the file    *)
(*   rows      the rows of the table in the file                           *)
(***************************************************************************)
NoFile == [exists |-> FALSE, complete |-> FALSE, rows |-> <<>>]

\* pa.Table.from_pandas(df, schema=schema): the seven columns of the schema
ToTable(df) ==
    [i \in 1..Len(df) |->
        [DateTime |-> df[i].DateTime, Date |-> df[i].Date, Hour |-> df[i].Hour,
         Venue |-> df[i].Venue, Entering |-> df[i].Entering,
         Inside |-> df[i].Inside, IsOpen |-> df[i].IsOpen]]

\* pd.read_parquet(filename), then Date back to datetime.date
ReadParquet(f) == IF f.complete THEN Ok(f.rows) ELSE Raise

\* set(new_df['Date'].unique())
DatesOf(df) == {df[i].Date : i \in 1..Len(df)}

\* the mutant of DropDates: nothing is removed, the new rows are appended
DropDatesNot(existing_df, new_dates) == existing_df

\* existing_df[~existing_df['Date'].isin(new_dates)]
DropDates(existing_df, new_dates) ==
    SelectSeq(existing_df, LAMBDA row : row.Date \notin new_dates)

\* the mutant of Combine: the multiplier is applied again to the retained rows
CombineRescaled(existing_df, new_df) ==
    SortValues([i \in 1..Len(existing_df) |->
                   [existing_df[i] EXCEPT !.Entering = ApplyMultiplier(@)]] \o new_df)

\* pd.concat([existing_df, new_df], ignore_index=True), then the sort
Combine(existing_df, new_df) == SortValues(existing_df \o new_df)

\* the mutant of merge_with_existing: the table that is read is dropped, the
\* new rows alone are written
merge_with_existing_overwrite(new_df, f) ==
    IF ~f.exists THEN Ok(new_df)
    ELSE LET existing_df == ReadParquet(f)
         IN  IF ~existing_df.ok THEN Raise
             ELSE Ok(new_df)

\* merge_with_existing(new_df, filename): the combined DataFrame, or the
\* exception of pd.read_parquet on a file that is not complete
merge_with_existing(new_df, f) ==
    IF ~f.exists THEN Ok(new_df)
    ELSE LET existing_df == ReadParquet(f)
         IN  IF ~existing_df.ok THEN Raise
             ELSE Ok(Combine(DropDates(existing_df.v, DatesOf(new_df)), new_df))

(***************************************************************************)
(* Collecting the files of a run.  A message (or a file of the local       *)
(* folder) is [ts, parts]: ts the instant of its Date header (or of the    *)
(* file's modification), parts the sheets of its attachments whose name    *)
(* passes the filter, in order.                                            *)
(***************************************************************************)
Variants == {"imap", "oauth", "gmail_api", "local"}

\* the layout that the parse_traffic_file of a variant reads
Layout(v) == IF v = "imap" THEN "labeled" ELSE "positional"

Found(date, sheet) == [date |-> date, sheet |-> sheet]

Reverse(s) == [i \in 1..Len(s) |-> s[Len(s) + 1 - i]]

\* the mutant of AddFirstPart: a date already in files_found is not skipped
AddFirstPartNoSkip(files, msg) ==
    LET data_date == get_data_date(msg.ts)
    IN  IF msg.parts = <<>> THEN files
        ELSE Append(files, Found(data_date, msg.parts[1]))

\* the body of the loop over the messages: a date already in files_found is
\* skipped, the first matching attachment is kept (process_traffic.py breaks
\* out of the loop over the parts, process_traffic_gmail_api.py too)
AddFirstPart(files, msg) ==
    LET data_date == get_data_date(msg.ts)
    IN  IF \E i \in 1..Len(files) : files[i].date = data_date THEN files
        ELSE IF msg.parts = <<>> THEN files
        ELSE Append(files, Found(data_date, msg.parts[1]))

\* process_traffic_oauth.py does not break: the last matching attachment stays
AddLastPart(files, msg) ==
    LET data_date == get_data_date(msg.ts)
    IN  IF \E i \in 1..Len(files) : files[i].date = data_date THEN files
        ELSE IF msg.parts = <<>> THEN files
        ELSE Append(files, Found(data_date, msg.parts[Len(msg.parts)]))

RECURSIVE FirstParts(_, _)
\* the loop over the messages, the first matching attachment of each kept
FirstParts(files, msgs) ==
    IF msgs = <<>> THEN files
    ELSE FirstParts(AddFirstPart(files, Head(msgs)), Tail(msgs))

RECURSIVE LastParts(_, _)
\* the loop over the messages, the last matching attachment of each kept
LastParts(files, msgs) ==
    IF msgs = <<>> THEN files
    ELSE LastParts(AddLastPart(files, Head(msgs)), Tail(msgs))

RECURSIVE SortByDate(_)
\* sorted(files_found.items()): the dates of a dict are distinct
SortByDate(files) ==
    IF files = <<>> THEN <<>>
    ELSE LET rest == SortByDate(SubSeq(files, 1, Len(files) - 1))
             x == files[Len(files)]
             p == Cardinality({i \in 1..Len(rest) : rest[i].date <= x.date})
         IN  SubSeq(rest, 1, p) \o <<x>> \o SubSeq(rest, p + 1, Len(rest))

\* find_traffic_emails: newest first, and process_data walks the dict in
\* insertion order
find_traffic_emails(msgs) == FirstParts(<<>>, Reverse(msgs))

\* process_gmail_messages, then sorted(files_found.items())
process_gmail_messages(msgs) == SortByDate(LastParts(<<>>, msgs))

\* the loop over gmail_data['messages'], then sorted(files_found.items())
gmail_api_messages(msgs) == SortByDate(FirstParts(<<>>, msgs))

\* file_date - timedelta(days=1) of the modification time in Melbourne
LocalDataDate(mtime) == (AsMelbourne(mtime) \div 24) - 1

\* sorted(excel_files): every file of the folder, each with its own data date
local_files(files) ==
    [i \in 1..Len(files) |-> Found(LocalDataDate(files[i].ts), files[i].parts[1])]

\* the files a run goes on to parse, in the order it parses them
CollectFiles(v, msgs) ==
    CASE v = "imap" -> find_traffic_emails(msgs)
      [] v = "oauth" -> process_gmail_messages(msgs)
      [] v = "gmail_api" -> gmail_api_messages(msgs)
      [] OTHER -> local_files(msgs)

\* parse_traffic_file of the variant
ParseTrafficFile(v, f) ==
    IF Layout(v) = "labeled" THEN ParseLabeled(f.sheet, f.date)
    ELSE ParsePositional(f.sheet, f.date)

(***************************************************************************)
(* The inputs of the model.                                                *)
(***************************************************************************)
\* Date headers 2024-01-05T22:00Z and 2024-01-06T22:00Z: the mornings of
\* Saturday 6 and Sunday 7 January in Melbourne, data dates Friday 5 (day 4)
\* and Saturday 6 (day 5)
Timestamps == {118, 142}

PositionalHeader ==
    << StrCell("Date / time"), StrCell("Visitors inside"), StrCell("Visitors entering"),
       StrCell("Visitors inside"), StrCell("Visitors entering") >>

LabeledHeader ==
    << StrCell("Time"), StrCell("Melbourne Inside"), StrCell("Melbourne Entering"),
       StrCell("Sydney Inside"), StrCell("Sydney Entering") >>

\* the first cell of a data row: hours 0 and 24 as numbers in the labeled
\* layout (24 of a day and 0 of the next share a DateTime), a time of day and
\* the str "23:00" in the positional layout
TimeCells(layout) ==
    IF layout = "labeled" THEN {IntCell(0), IntCell(24)}
    ELSE {TimeCell(8), StrCell("23:00")}

\* the four counts of a data row: inside, entering, inside, entering
CountCells == { <<IntCell(10), IntCell(20), IntCell(5), IntCell(15)>>,
                <<IntCell(11), IntCell(21), IntCell(6), IntCell(16)>> }

DataRows(layout) == {<<tc>> \o cc : tc \in TimeCells(layout), cc \in CountCells}

SeqsUpTo(S, n) == UNION {[1..k -> S] : k \in 0..n}

Header(layout) == IF layout = "labeled" THEN LabeledHeader ELSE PositionalHeader

Sheets(layout) == {<<Header(layout)>> \o rows : rows \in SeqsUpTo(DataRows(layout), MaxRows)}

Messages(v) == {[ts |-> ts, parts |-> <<sheet>>] : ts \in Timestamps, sheet \in Sheets(Layout(v))}

\* the mailbox or the folder that a run of variant v finds
Inboxes(v) == SeqsUpTo(Messages(v), MaxFiles)

\* the inputs of a run of one of the scripts vs: the script and what it finds
Inputs(vs) == UNION {{[variant |-> v, inbox |-> msgs] : msgs \in Inboxes(v)} : v \in vs}

(***************************************************************************)
(* The inputs that exercise the extraction rules: one run on one file with *)
(* one data row of every kind, on a file with a summary row between two    *)
(* data rows, on a batch with a file that has no header row, and on a      *)
(* message of every instant around the changes of date and of UTC offset.  *)
(***************************************************************************)
\* Date header 2024-01-02T22:00Z: the morning of Wednesday 3 January in
\* Melbourne, data date Tuesday 2 January (day 1)
ScenarioTs == 46

Message(ts, sheet) == [ts |-> ts, parts |-> <<sheet>>]

\* the first cell of a data row: a time of day, colon-delimited strings,
\* numbers inside and outside 0..26, an empty cell, summary labels
ExtractTimeCells ==
    { TimeCell(8), StrCell("08:00"), StrCell("23:00"), StrCell("24:00"),
      IntCell(8), IntCell(26), IntCell(27), IntCell(0 - 1), FloatCell(850),
      NaN, StrCell("Total"), StrCell("12:00 Total") }

\* inside, entering, inside, entering of the row 08:00, 10, 20, 5, 15
BaseCounts == <<IntCell(10), IntCell(20), IntCell(5), IntCell(15)>>

\* count cells that are not plain non-negative integers: empty, text, a
\* range, a negative number, a number with decimals (10.5)
OddCells == {NaN, StrCell("n/a"), StrCell("5-10"), IntCell(0 - 5), FloatCell(1050)}

\* the four counts of a row, at most one of them odd
ExtractCounts ==
    {BaseCounts} \cup {[BaseCounts EXCEPT ![i] = c] : i \in 1..4, c \in OddCells}

ExtractRows == {<<tc>> \o cc : tc \in ExtractTimeCells, cc \in ExtractCounts}

\* one file: the header of the layout the script reads and one data row
RowInputs ==
    {[variant |-> v,
      inbox |-> <<Message(ScenarioTs, <<Header(Layout(v)), row>>)>>] :
        v \in Variants, row \in ExtractRows}

SummaryCells == {StrCell("Total"), StrCell("AVERAGE"), StrCell("12:00 Total")}

\* one file: a data row, a summary row, a data row
SummaryInputs ==
    {[variant |-> v,
      inbox |-> <<Message(ScenarioTs,
                          << Header(Layout(v)),
                             <<TimeCell(8)>> \o BaseCounts,
                             <<sc>> \o cc,
                             <<StrCell("23:00")>> \o BaseCounts >>)>>] :
        v \in Variants, sc \in SummaryCells,
        cc \in {BaseCounts, <<NaN, NaN, NaN, NaN>>}}

\* a sheet in which no row has a first cell with both 'Date' and 'time'
NoHeaderSheet == <<LabeledHeader, <<TimeCell(8)>> \o BaseCounts>>

\* a sheet with the header of the layout and one data row
GoodSheet(layout) == <<Header(layout), <<StrCell("23:00")>> \o BaseCounts>>

\* two files of different data dates, one of them without a header row
BatchInputs ==
    {[variant |-> v, inbox |-> msgs] :
        v \in Variants,
        msgs \in { << Message(ScenarioTs, NoHeaderSheet), Message(118, GoodSheet("positional")) >>,
                   << Message(ScenarioTs, GoodSheet("positional")), Message(118, NoHeaderSheet) >> }}

\* instants around the change of date in Melbourne (13:00Z under UTC+11,
\* 14:00Z under UTC+10) and around the two changes of offset of 2024, and
\* 2024-06-02T17:00Z, which is 2024-06-03 03:00 in Melbourne
DateInstants == {12, 13, 2316, 2317, 2319, 2320, 3685, 3686, 3689, 6685, 6686, 6687, 6688}

\* the UTC offsets of the Date headers
HeaderOffsets == {0 - 5, 0, 10}

\* parsedate_to_datetime of a Date header that shows the wall-clock time
\* wall at UTC offset off: the instant
ParseDate(wall, off) == wall - off

DateInputs ==
    {[variant |-> v,
      inbox |-> <<Message(ParseDate(i + off, off), GoodSheet(Layout(v)))>>] :
        v \in Variants, i \in DateInstants, off \in HeaderOffsets}

\* the scripts that read a mailbox
MailVariants == {"imap", "oauth", "gmail_api"}

\* two Date headers of data date 2024-01-02 and one of 2024-01-05
MailInstants == {ScenarioTs, ScenarioTs + 1, 118}

\* the sheet with the header of the layout and the data row 08:00 with counts cc
CountSheet(layout, cc) == <<Header(layout), <<TimeCell(8)>> \o cc>>

\* the matching attachments of a message: none, one, or two
MailParts(layout) ==
    LET a == CountSheet(layout, BaseCounts)
        b == CountSheet(layout, <<IntCell(11), IntCell(21), IntCell(6), IntCell(16)>>)
    IN  {<<>>, <<a>>, <<b>>, <<a, b>>}

\* a mailbox of MaxFiles messages, with and without matching attachments, of
\* the same data date or not
MailInputs ==
    UNION {{[variant |-> v, inbox |-> msgs] :
               msgs \in [1..MaxFiles -> {[ts |-> ts, parts |-> ps] :
                                            ts \in MailInstants,
                                            ps \in MailParts(Layout(v))}]} :
           v \in MailVariants}

ExtractInputs ==
    RowInputs \cup SummaryInputs \cup BatchInputs \cup DateInputs \cup MailInputs

(***************************************************************************)
(* State.                                                                  *)
(***************************************************************************)
Procs == {1, 2}

VARIABLES
    file,         \* hourly_foot_traffic.parquet
    pc,           \* pc[p]: where process p is in main()
    variant,      \* variant[p]: the script that p runs
    inbox,        \* inbox[p]: the messages or files p was started on
    files_found,  \* files_found[p]: the files still to parse
    all_data,     \* all_data[p]
    new_df,       \* new_df[p]
    loaded,       \* loaded[p]: the file as merge_with_existing found it
    final_df,     \* final_df[p]
    before,       \* before[p]: the file when p started (history)
    rerun,        \* rerun[p]: p repeats its previous run on the same input (history)
    first,        \* first[p]: the file after that previous run (history)
    runs,         \* runs started so far
    rawOf,        \* the spreadsheet counts behind the rows of the file (history)
    obs,          \* what the reader of the table got
    query,        \* the arguments of a call of is_venue_open
    answer        \* its result

vars == << file, pc, variant, inbox, files_found, all_data, new_df, loaded,
           final_df, before, rerun, first, runs, rawOf, obs, query, answer >>

locals == << variant, inbox, files_found, all_data, new_df, loaded, final_df >>

NoQuery == [date |-> 0, hour |-> 0, venue |-> "Melbourne"]
NoObs == [status |-> "none", rows |-> <<>>]

\* no process runs and no table has been written yet
InitRuns ==
    /\ file = NoFile
    /\ pc = [p \in Procs |-> "idle"]
    /\ variant = [p \in Procs |-> "imap"]
    /\ inbox = [p \in Procs |-> <<>>]
    /\ files_found = [p \in Procs |-> <<>>]
    /\ all_data = [p \in Procs |-> <<>>]
    /\ new_df = [p \in Procs |-> <<>>]
    /\ loaded = [p \in Procs |-> NoFile]
    /\ final_df = [p \in Procs |-> <<>>]
    /\ before = [p \in Procs |-> NoFile]
    /\ rerun = [p \in Procs |-> FALSE]
    /\ first = [p \in Procs |-> NoFile]
    /\ runs = 0
    /\ rawOf = {}
    /\ obs = NoObs

Init ==
    /\ InitRuns
    /\ query = NoQuery
    /\ answer = "none"

(***************************************************************************)
(* The steps of a run (main of each variant).                              *)
(***************************************************************************)
\* a process is started: one of the scripts, on the mailbox or folder it finds
RunStart(p, inputs) ==
    /\ pc[p] = "idle"
    /\ runs < MaxRuns
    /\ runs' = runs + 1
    /\ pc' = [pc EXCEPT ![p] = "collect"]
    /\ \E in \in inputs :
          /\ variant' = [variant EXCEPT ![p] = in.variant]
          /\ inbox' = [inbox EXCEPT ![p] = in.inbox]
    /\ before' = [before EXCEPT ![p] = file]
    /\ UNCHANGED << file, files_found, all_data, new_df, loaded, final_df,
                    rerun, first, rawOf, obs, query, answer >>

\* find_traffic_emails / process_gmail_messages / the glob of the folder;
\* main returns when nothing is found
Collect(p) ==
    /\ pc[p] = "collect"
    /\ LET files == CollectFiles(variant[p], inbox[p])
       IN  /\ files_found' = [files_found EXCEPT ![p] = files]
           /\ pc' = [pc EXCEPT ![p] = IF files = <<>> THEN "exit" ELSE "extract"]
    /\ UNCHANGED << file, variant, inbox, all_data, new_df, loaded, final_df,
                    before, rerun, first, runs, rawOf, obs, query, answer >>

\* the mutant of ExtractFile: the records of each file are written to the
\* table as soon as the file is parsed
ExtractFileUpsert(p) ==
    /\ pc[p] = "extract"
    /\ files_found[p] # <<>>
    /\ all_data' = [all_data EXCEPT
                      ![p] = @ \o ParseTrafficFile(variant[p], Head(files_found[p]))]
    /\ files_found' = [files_found EXCEPT ![p] = Tail(@)]
    /\ file' = [exists |-> TRUE, complete |-> TRUE,
                rows |-> ToTable(ProcessData(all_data'[p]))]
    /\ UNCHANGED << pc, variant, inbox, new_df, loaded, final_df,
                    before, rerun, first, runs, rawOf, obs, query, answer >>

\* one iteration of the loop over the files: all_data.extend(parse_traffic_file(...))
ExtractFile(p) ==
    /\ pc[p] = "extract"
    /\ files_found[p] # <<>>
    /\ all_data' = [all_data EXCEPT
                      ![p] = @ \o ParseTrafficFile(variant[p], Head(files_found[p]))]
    /\ files_found' = [files_found EXCEPT ![p] = Tail(@)]
    /\ UNCHANGED << file, pc, variant, inbox, new_df, loaded, final_df,
                    before, rerun, first, runs, rawOf, obs, query, answer >>

\* the mutant of Process: main goes on to the merge with no record
ProcessAlways(p) ==
    /\ pc[p] = "extract"
    /\ files_found[p] = <<>>
    /\ pc' = [pc EXCEPT ![p] = "merge"]
    /\ new_df' = [new_df EXCEPT ![p] = ProcessData(all_data[p])]
    /\ UNCHANGED << file, variant, inbox, files_found, all_data, loaded, final_df,
                    before, rerun, first, runs, rawOf, obs, query, answer >>

\* after the loop: main returns when all_data is empty, else the DataFrame
\* is built, enriched and sorted
Process(p) ==
    /\ pc[p] = "extract"
    /\ files_found[p] = <<>>
    /\ IF all_data[p] = <<>>
       THEN /\ pc' = [pc EXCEPT ![p] = "exit"]
            /\ UNCHANGED new_df
       ELSE /\ pc' = [pc EXCEPT ![p] = "merge"]
            /\ new_df' = [new_df EXCEPT ![p] = ProcessData(all_data[p])]
    /\ UNCHANGED << file, variant, inbox, files_found, all_data, loaded, final_df,
                    before, rerun, first, runs, rawOf, obs, query, answer >>

\* final_df = merge_with_existing(new_df, PARQUET_FILENAME); the exception of
\* pd.read_parquet ends the run
Merge(p) ==
    /\ pc[p] = "merge"
    /\ LET m == merge_with_existing(new_df[p], file)
       IN  IF m.ok
           THEN /\ final_df' = [final_df EXCEPT ![p] = m.v]
                /\ pc' = [pc EXCEPT ![p] = "save"]
           ELSE /\ pc' = [pc EXCEPT ![p] = "failed"]
                /\ UNCHANGED final_df
    /\ loaded' = [loaded EXCEPT ![p] = file]
    /\ UNCHANGED << file, variant, inbox, files_found, all_data, new_df,
                    before, rerun, first, runs, rawOf, obs, query, answer >>

\* a file that exists and cannot be read
Corrupt == [exists |-> TRUE, complete |-> FALSE, rows |-> <<>>]

\* pq.write_table(table, filename) opens the destination itself: the file is
\* created or truncated in place
SaveOpen(p) ==
    /\ pc[p] = "save"
    /\ file' = Corrupt
    /\ pc' = [pc EXCEPT ![p] = "writing"]
    /\ UNCHANGED << locals, before, rerun, first, runs, rawOf, obs, query, answer >>

\* the table of p written and closed
Written(p) == [exists |-> TRUE, complete |-> TRUE, rows |-> ToTable(final_df[p])]

\* the file after p has written its bytes from offset 0.  Into a file that
\* is empty since its last truncation they are the whole content.  Over the
\* bytes another process wrote after p opened the file, the result depends on
\* the two lengths: p's table, or a mix that cannot be read
WriteOutcomes(p) == IF file.complete THEN {Written(p), Corrupt} ELSE {Written(p)}

\* the spreadsheet counts behind the rows p extracted
RawPairs(p) ==
    {[row |-> EnrichRow(all_data[p][i]), raw |-> all_data[p][i]] :
        i \in 1..Len(all_data[p])}

\* pq.write_table writes the row group and the footer and closes the file
SaveClose(p) ==
    /\ pc[p] = "writing"
    /\ \E f \in WriteOutcomes(p) :
          /\ file' = f
          /\ rawOf' = {x \in rawOf \cup RawPairs(p) : x.row \in Range(f.rows)}
    /\ pc' = [pc EXCEPT ![p] = "done"]
    /\ UNCHANGED << locals, before, rerun, first, runs, obs, query, answer >>

\* pq.write_table raises part-way (the disk is full, the process is killed):
\* the exception leaves main, the destination stays as the write left it
SaveFail(p) ==
    /\ pc[p] = "writing"
    /\ file' \in (IF file.complete THEN {file, Corrupt} ELSE {file})
    /\ rawOf' = {x \in rawOf : x.row \in Range(file'.rows)}
    /\ pc' = [pc EXCEPT ![p] = "failed"]
    /\ UNCHANGED << locals, before, rerun, first, runs, obs, query, answer >>

\* the process is gone: its variables with it
Cleared(f, p, v) == [f EXCEPT ![p] = v]

\* the process exits: after a return of main, after the summary, or with the
\* exception
RunEnd(p) ==
    /\ pc[p] \in {"exit", "done", "failed"}
    /\ pc' = [pc EXCEPT ![p] = "idle"]
    /\ variant' = Cleared(variant, p, "imap")
    /\ inbox' = Cleared(inbox, p, <<>>)
    /\ files_found' = Cleared(files_found, p, <<>>)
    /\ all_data' = Cleared(all_data, p, <<>>)
    /\ new_df' = Cleared(new_df, p, <<>>)
    /\ loaded' = Cleared(loaded, p, NoFile)
    /\ final_df' = Cleared(final_df, p, <<>>)
    /\ before' = Cleared(before, p, NoFile)
    /\ rerun' = Cleared(rerun, p, FALSE)
    /\ first' = Cleared(first, p, NoFile)
    /\ UNCHANGED << file, runs, rawOf, obs, query, answer >>

\* the script is started again on the same mailbox or folder, right after a
\* run that committed
RunAgain(p) ==
    /\ pc[p] = "done"
    /\ ~rerun[p]
    /\ pc' = [pc EXCEPT ![p] = "collect"]
    /\ rerun' = [rerun EXCEPT ![p] = TRUE]
    /\ first' = [first EXCEPT ![p] = file]
    /\ before' = [before EXCEPT ![p] = file]
    /\ files_found' = Cleared(files_found, p, <<>>)
    /\ all_data' = Cleared(all_data, p, <<>>)
    /\ new_df' = Cleared(new_df, p, <<>>)
    /\ loaded' = Cleared(loaded, p, NoFile)
    /\ final_df' = Cleared(final_df, p, <<>>)
    /\ UNCHANGED << file, variant, inbox, runs, rawOf, obs, query, answer >>

(***************************************************************************)
(* The reader of the table (generate_json.py).                             *)
(***************************************************************************)
\* df = pd.read_parquet('hourly_foot_traffic.parquet')
Read ==
    /\ obs = NoObs
    /\ obs' = CASE ~file.exists -> [status |-> "absent", rows |-> <<>>]
                [] ~file.complete -> [status |-> "unreadable", rows |-> <<>>]
                [] OTHER -> [status |-> "table", rows |-> file.rows]
    /\ UNCHANGED << file, pc, locals, before, rerun, first, runs, rawOf, query, answer >>

\* the script ends
ReadEnd ==
    /\ obs # NoObs
    /\ obs' = NoObs
    /\ UNCHANGED << file, pc, locals, before, rerun, first, runs, rawOf, query, answer >>

(***************************************************************************)
(* Specifications.                                                         *)
(***************************************************************************)
Step(p) ==
    \/ Collect(p)
    \/ ExtractFile(p)
    \/ Process(p)
    \/ Merge(p)
    \/ SaveOpen(p)
    \/ SaveClose(p)
    \/ SaveFail(p)
    \/ RunEnd(p)
    \/ RunAgain(p)

\* one process at a time: the runs of a scheduled job, one after the other
Next ==
    \/ RunStart(1, Inputs(Variants))
    \/ Step(1)

Spec == Init /\ [][Next]_vars

(***************************************************************************)
(* Two processes started against the same table, and a reader: nothing in  *)
(* the scripts keeps a second process from starting while one runs.        *)
(***************************************************************************)
\* one message with one data row for 08:00, read by process_traffic_gmail_api.py
ConcInputs ==
    {[variant |-> "gmail_api",
      inbox |-> << [ts |-> ts,
                    parts |-> << <<PositionalHeader, <<TimeCell(8)>> \o cc>> >>] >>] :
        ts \in Timestamps, cc \in CountCells}

NextConc ==
    \/ \E p \in Procs : RunStart(p, ConcInputs) \/ Step(p)
    \/ Read
    \/ ReadEnd

SpecConc == Init /\ [][NextConc]_vars

(***************************************************************************)
(* One run of a script against an absent table, on the inputs that         *)
(* exercise the extraction rules.                                          *)
(***************************************************************************)
NextExtract ==
    \/ runs = 0 /\ RunStart(1, ExtractInputs)
    \/ Step(1)

SpecExtract == Init /\ [][NextExtract]_vars

(***************************************************************************)
(* is_venue_open as a function: every weekday, every hour of the accepted  *)
(* range and one past it, the two venues and one that is not in the table. *)
(***************************************************************************)
Queries == [date : 0..6, hour : 0..27, venue : {"Melbourne", "Sydney", "Brisbane"}]

InitOpen ==
    /\ InitRuns
    /\ query \in Queries
    /\ answer = "none"

\* is_venue_open(date, hour, venue) is called
Ask ==
    /\ answer = "none"
    /\ answer' = IF is_venue_open(query.date, query.hour, query.venue)
                 THEN "open" ELSE "closed"
    /\ UNCHANGED << file, pc, locals, before, rerun, first, runs, rawOf, obs, query >>

\* the next call
NewQuery ==
    /\ answer # "none"
    /\ query' \in Queries
    /\ answer' = "none"
    /\ UNCHANGED << file, pc, locals, before, rerun, first, runs, rawOf, obs >>

NextOpen == Ask \/ NewQuery

SpecOpen == InitOpen /\ [][NextOpen]_vars

(***************************************************************************)
(* Properties.                                                             *)
(***************************************************************************)
\* the rows of a table that carry date d, in the order of the table
RowsOfDate(rows, d) == SelectSeq(rows, LAMBDA row : row.Date = d)

\* the rows of a table whose date is not in dates, in the order of the table
RowsOutside(rows, dates) == SelectSeq(rows, LAMBDA row : row.Date \notin dates)

\* process p has committed its upsert and has not exited yet
Committed(p) == pc[p] = "done"

\* the files the run of p parses, in the order it parses them
FilesOf(p) == CollectFiles(variant[p], inbox[p])

\* the run of p is past the loop over its files
Extracted(p) ==
    /\ pc[p] \in {"exit", "merge", "save", "writing", "done", "failed"}
    /\ files_found[p] = <<>>

\* the run of p is on one file that has a header and one data row
OneRow(p) == Len(FilesOf(p)) = 1 /\ Len(FilesOf(p)[1].sheet) = 2

\* that data row
TheRow(p) == FilesOf(p)[1].sheet[2]

\* C1: the persisted table holds at most one row per (Date, Hour, Venue),
\* whatever the files of the runs contained
C1_OneRowPerKey ==
    file.complete =>
        \A i, j \in 1..Len(file.rows) :
            (/\ file.rows[i].Date = file.rows[j].Date
             /\ file.rows[i].Hour = file.rows[j].Hour
             /\ file.rows[i].Venue = file.rows[j].Venue) => i = j

\* C2: a run repeated on the same input right after it committed leaves the
\* table, row for row, as its first pass left it
C2_Idempotent ==
    \A p \in Procs : (Committed(p) /\ rerun[p]) => file = first[p]

\* C2 witness: a repeated run has committed on a table that also holds the rows
\* an earlier run wrote for another date
C2_Witness ==
    /\ Committed(1) /\ rerun[1]
    /\ first[1].complete
    /\ RowsOutside(file.rows, DatesOf(new_df[1])) # <<>>

\* C3: after an upsert the rows of every date of newRecords are exactly the
\* rows newRecords has for that date
C3_FullDateReplace ==
    \A p \in Procs :
        Committed(p) =>
            \A d \in DatesOf(new_df[p]) :
                RowsOfDate(file.rows, d) = RowsOfDate(ToTable(new_df[p]), d)

\* C3 witness: an upsert has committed over a table that held, for one of its
\* dates, a row with an (hour, venue) that newRecords does not contain
C3_Witness ==
    /\ Committed(1)
    /\ \E i \in 1..Len(loaded[1].rows) :
          /\ loaded[1].rows[i].Date \in DatesOf(new_df[1])
          /\ \A j \in 1..Len(new_df[1]) :
                ~(/\ new_df[1][j].Date = loaded[1].rows[i].Date
                  /\ new_df[1][j].Hour = loaded[1].rows[i].Hour
                  /\ new_df[1][j].Venue = loaded[1].rows[i].Venue)

\* C4: an upsert leaves every row of the table it loaded whose date is not in
\* newRecords in place, with its seven fields unchanged
C4_OtherDatesUntouched ==
    \A p \in Procs :
        Committed(p) =>
            RowsOutside(file.rows, DatesOf(new_df[p]))
                = RowsOutside(loaded[p].rows, DatesOf(new_df[p]))

\* C4 witness: an upsert has committed over a table that held rows of a date
\* it did not bring, and replaced the rows of a date it did bring
C4_Witness ==
    /\ Committed(1)
    /\ RowsOutside(loaded[1].rows, DatesOf(new_df[1])) # <<>>
    /\ \E d \in DatesOf(new_df[1]) : RowsOfDate(loaded[1].rows, d) # <<>>

\* C5: the reader of the table never gets a partially written file
C5_ReaderSeesWholeTable == obs.status # "unreadable"

\* C6: a run that failed has left the table as it was when the run started
C6_FailedRunLeavesTable ==
    \A p \in Procs : pc[p] = "failed" => file = before[p]

\* C7: the upserts of two runs do not interleave: when both have committed,
\* one of them loaded the table the other wrote and the file is its result
C7_OneUpsertAtATime ==
    (Committed(1) /\ Committed(2)) =>
        \/ loaded[2] = Written(1) /\ file = Written(2)
        \/ loaded[1] = Written(2) /\ file = Written(1)

\* C8: the persisted table is sorted ascending by (DateTime, Venue)
C8_Sorted ==
    file.complete =>
        \A i \in 1..(Len(file.rows) - 1) :
            \/ file.rows[i].DateTime < file.rows[i + 1].DateTime
            \/ /\ file.rows[i].DateTime = file.rows[i + 1].DateTime
               /\ VenueRank(file.rows[i].Venue) <= VenueRank(file.rows[i + 1].Venue)

\* C8 witness: a merge has put a new row in front of a row it retained, and
\* a first upsert on no table has written several dates
C8_Witness ==
    /\ Committed(1)
    /\ loaded[1].complete
    /\ \E i, j \in 1..Len(file.rows) :
          /\ i < j
          /\ file.rows[i].Date \in DatesOf(new_df[1])
          /\ file.rows[j].Date \notin DatesOf(new_df[1])

\* C9: every row of the table has Entering = 0.95 * the entering count read
\* from the spreadsheet and Inside = the inside count read
C9_MultiplierOnce ==
    file.complete =>
        \A i \in 1..Len(file.rows) :
            \E x \in rawOf :
                /\ x.row = file.rows[i]
                /\ file.rows[i].Entering * 100 = x.raw.Entering * 95
                /\ file.rows[i].Inside = x.raw.Inside

\* C9 witness: a table holds a retained row of an earlier run, next to the
\* rows of a date that was uploaded again
C9_Witness ==
    /\ Committed(1)
    /\ \E d \in DatesOf(new_df[1]) : RowsOfDate(loaded[1].rows, d) # <<>>
    /\ \E i \in 1..Len(file.rows) :
          /\ file.rows[i].Date \notin DatesOf(new_df[1])
          /\ file.rows[i].Entering > 0

\* C10: is_venue_open is false for a venue outside the table; otherwise, with
\* (open, close) of the weekday, it is (hour >= open or hour < close - 24)
\* when close > 24 and (open <= hour < close) when close <= 24; on a Friday
\* (12, 24) hour 23 is open and hour 24 is closed
C10_IsVenueOpen ==
    answer # "none" =>
        LET known == query.venue \in {"Melbourne", "Sydney"}
            pair == VENUE_OPERATING_HOURS[query.venue][query.date % 7]
            open == pair[1]
            close == pair[2]
            h == query.hour
        IN  /\ ~known => answer = "closed"
            /\ (known /\ close > 24) =>
                   (answer = "open" <=> (h >= open \/ h < close - 24))
            /\ (known /\ close <= 24) =>
                   (answer = "open" <=> (open <= h /\ h < close))
            /\ (known /\ query.date = 4 /\ h = 23) => answer = "open"
            /\ (known /\ query.date = 4 /\ h = 24) => answer = "closed"

\* C10 witness: the call for Friday, hour 24, has answered
C10_Witness ==
    /\ answer # "none"
    /\ query.date = 4 /\ query.hour = 24 /\ query.venue = "Melbourne"

\* C11: the data date of a file is the calendar date in Melbourne of its
\* instant, minus one day, on the mail path and on the modification-time
\* path alike; 2024-06-03 03:00 in Melbourne gives 2024-06-02
C11_DataDate ==
    \A p \in Procs :
        (pc[p] = "extract" /\ Len(inbox[p]) = 1 /\ files_found[p] # <<>>) =>
            LET ts == inbox[p][1].ts
                melbourne == ts + MelbourneUtcOffset(ts)
                date == files_found[p][1].date
            IN  /\ date = (melbourne \div 24) - 1
                /\ get_data_date(ts) = LocalDataDate(ts)
                /\ ts = 3689 => date = 153

\* C11 witness: a run on the folder has attributed a file modified at
\* 2024-06-03 03:00 Melbourne time to 2024-06-02
C11_Witness ==
    /\ pc[1] = "extract" /\ files_found[1] # <<>> /\ Len(inbox[1]) = 1
    /\ variant[1] = "local"
    /\ inbox[1][1].ts = 3689
    /\ files_found[1][1].date = 153

\* C12: in the positional layout a data row whose first cell is a time of
\* day yields its two records whatever its count cells are: a count cell
\* that is empty or not a number counts 0, the other cells keep their value
C12_BadCellCountsZero ==
    \A p \in Procs :
        (/\ Extracted(p) /\ OneRow(p)
         /\ Layout(variant[p]) = "positional"
         /\ TheRow(p)[1].k = "time") =>
            LET row == TheRow(p)
                date == FilesOf(p)[1].date
                count(c) == CASE c.k = "int" -> c.n * 10000
                              [] c.k = "float" -> c.n * 100
                              [] OTHER -> 0
            IN  all_data[p] =
                    << RawRecord(date, row[1].n, "Melbourne", count(row[3]), count(row[2])),
                       RawRecord(date, row[1].n, "Sydney", count(row[5]), count(row[4])) >>

\* C13: the hour of a data row is the hour of a date/time value, the integer
\* before the first colon of a string, the truncation of a number; a first
\* cell of any other type makes the row be skipped; in both layouts
C13_HourDerivation ==
    \A p \in Procs :
        (/\ Extracted(p) /\ OneRow(p)
         /\ SubSeq(TheRow(p), 2, 5) = BaseCounts
         /\ ~(TheRow(p)[1].k = "str" /\ HasSummaryWord(Chars(TheRow(p)[1].s)))
         /\ HeaderRow(FilesOf(p)[1].sheet) # 0 \/ Layout(variant[p]) = "labeled") =>
            LET c == TheRow(p)[1]
                colon == IF c.k = "str" THEN IndexOf(Chars(c.s), ":") ELSE 0
                h == CASE c.k = "time" -> Ok(c.n)
                       [] c.k = "str" /\ colon > 0 ->
                            IntOfStr(SubSeq(Chars(c.s), 1, colon - 1))
                       [] c.k = "int" -> Ok(c.n)
                       [] c.k = "float" -> Ok(TruncHundredths(c.n))
                       [] OTHER -> Raise
            IN  IF h.ok /\ 0 <= h.v /\ h.v <= 26
                THEN /\ all_data[p] # <<>>
                     /\ \A i \in 1..Len(all_data[p]) : all_data[p][i].Hour = h.v
                ELSE all_data[p] = <<>>

\* C14: a data row whose first cell is a time of day or a colon-delimited
\* string is accepted exactly when the hour it denotes is in 0..26, 24 to
\* 26 included, and every Hour of the table is in 0..26
C14_HourRange ==
    /\ file.complete => \A i \in 1..Len(file.rows) : file.rows[i].Hour \in 0..26
    /\ \A p \in Procs :
        (/\ Extracted(p) /\ OneRow(p)
         /\ SubSeq(TheRow(p), 2, 5) = BaseCounts
         /\ HeaderRow(FilesOf(p)[1].sheet) # 0 \/ Layout(variant[p]) = "labeled"
         /\ \/ TheRow(p)[1].k = "time"
            \/ /\ TheRow(p)[1].k = "str"
               /\ ~HasSummaryWord(Chars(TheRow(p)[1].s))
               /\ IndexOf(Chars(TheRow(p)[1].s), ":") > 0) =>
            LET c == TheRow(p)[1]
                hour == IF c.k = "time" THEN c.n
                        ELSE NatOfDigits(SubSeq(Chars(c.s), 1, IndexOf(Chars(c.s), ":") - 1))
            IN  IF hour \in 0..26
                THEN {all_data[p][i].Hour : i \in 1..Len(all_data[p])} = {hour}
                ELSE all_data[p] = <<>>

\* C15: every row of the table has the Date and the Hour of the record it
\* was extracted as, and DateTime = Date + Hour hours; an hour of 24 to 26
\* stays with its data date
C15_HourStoredAsIs ==
    file.complete =>
        \A i \in 1..Len(file.rows) :
            /\ file.rows[i].DateTime = 24 * file.rows[i].Date + file.rows[i].Hour
            /\ \E x \in rawOf :
                  /\ x.row = file.rows[i]
                  /\ x.raw.Date = file.rows[i].Date
                  /\ x.raw.Hour = file.rows[i].Hour

\* C15 witness: a row of hour 24 written by an earlier run is in the table
\* after a later upsert for another date
C15_Witness ==
    /\ Committed(1)
    /\ loaded[1].complete
    /\ \E i \in 1..Len(file.rows) :
          /\ file.rows[i].Hour = 24
          /\ file.rows[i].Date \notin DatesOf(new_df[1])
          /\ file.rows[i].DateTime = 24 * file.rows[i].Date + 24

\* C16: a row after the header whose first cell is text with 'total',
\* 'average', 'minimum' or 'maximum' in any letter case yields no record in
\* any script, and the rows around it are extracted as without it
C16_SummaryRowsSkipped ==
    \A p \in Procs :
        Extracted(p) =>
            LET summary(row) == /\ row # <<>>
                                /\ row[1].k = "str"
                                /\ HasSummaryWord(Chars(row[1].s))
                strip(f) == [date |-> f.date,
                             sheet |-> IF f.sheet = <<>> THEN <<>>
                                       ELSE <<f.sheet[1]>> \o
                                            SelectSeq(Tail(f.sheet),
                                                      LAMBDA row : ~summary(row))]
            IN  all_data[p] =
                    Concat([i \in 1..Len(FilesOf(p)) |->
                               ParseTrafficFile(variant[p], strip(FilesOf(p)[i]))])

\* C17: a file in which no row has a first cell with both 'Date' and 'time'
\* yields no record, and the other files of the run are extracted as usual
C17_NoHeaderNoRecords ==
    \A p \in Procs :
        Extracted(p) =>
            all_data[p] =
                Concat([i \in 1..Len(FilesOf(p)) |->
                           IF HeaderRow(FilesOf(p)[i].sheet) = 0 THEN <<>>
                           ELSE ParseTrafficFile(variant[p], FilesOf(p)[i])])

\* C18: in the positional layout a data row with a time of day and four
\* numbers yields Melbourne (inside = column 1, entering = column 2) and
\* Sydney (inside = column 3, entering = column 4) with the hour of the row
\* and the date of the file; the row 08:00, 10, 20, 5, 15 of 2024-01-02 is
\* stored as Melbourne (8, 19.0, 10) and Sydney (8, 14.25, 5)
C18_PositionalRow ==
    \A p \in Procs :
        (/\ Extracted(p) /\ OneRow(p)
         /\ Layout(variant[p]) = "positional"
         /\ HeaderRow(FilesOf(p)[1].sheet) = 1
         /\ \/ TheRow(p)[1].k = "time"
            \/ TheRow(p)[1] \in {StrCell("08:00"), StrCell("23:00")}
         /\ \A i \in 2..5 : TheRow(p)[i].k \in {"int", "float"}) =>
            LET row == TheRow(p)
                date == FilesOf(p)[1].date
                hour == IF row[1].k = "time" THEN row[1].n
                        ELSE NatOfDigits(SubSeq(Chars(row[1].s), 1, 2))
                val(c) == IF c.k = "int" THEN c.n * 10000 ELSE c.n * 100
            IN  /\ all_data[p] =
                       << [Date |-> date, Hour |-> hour, Venue |-> "Melbourne",
                           Entering |-> val(row[3]), Inside |-> val(row[2])],
                          [Date |-> date, Hour |-> hour, Venue |-> "Sydney",
                           Entering |-> val(row[5]), Inside |-> val(row[4])] >>
                /\ (Committed(p) /\ row = <<StrCell("08:00")>> \o BaseCounts /\ date = 1) =>
                       file.rows =
                           << [DateTime |-> 32, Date |-> 1, Hour |-> 8, Venue |-> "Melbourne",
                               Entering |-> 190000, Inside |-> 100000, IsOpen |-> FALSE],
                              [DateTime |-> 32, Date |-> 1, Hour |-> 8, Venue |-> "Sydney",
                               Entering |-> 142500, Inside |-> 50000, IsOpen |-> FALSE] >>

\* C18 witness: the run on the file of 2024-01-02 with the row 08:00, 10,
\* 20, 5, 15 has committed
C18_Witness ==
    /\ Committed(1)
    /\ variant[1] = "gmail_api"
    /\ OneRow(1)
    /\ TheRow(1) = <<StrCell("08:00")>> \o BaseCounts
    /\ FilesOf(1)[1].date = 1
    /\ Len(file.rows) = 2

C20_NonNegative ==
    file.complete =>
        \A i \in 1..Len(file.rows) :
            file.rows[i].Entering >= 0 /\ file.rows[i].Inside >= 0

\* C21: every date that has a row in the table before an upsert has a row
\* in the table after it, over one upsert and over the upserts of a run and
\* its repetition
C21_DatesOnlyGrow ==
    \A p \in Procs :
        Committed(p) =>
            /\ DatesOf(loaded[p].rows) \subseteq DatesOf(file.rows)
            /\ DatesOf(before[p].rows) \subseteq DatesOf(file.rows)
            /\ rerun[p] => DatesOf(first[p].rows) \subseteq DatesOf(file.rows)

\* C21 witness: an upsert that brought a date the table did not have has
\* committed over a table with a date the upsert did not bring
C21_Witness ==
    /\ Committed(1)
    /\ loaded[1].complete
    /\ DatesOf(loaded[1].rows) \ DatesOf(new_df[1]) # {}
    /\ DatesOf(new_df[1]) \ DatesOf(loaded[1].rows) # {}
    /\ DatesOf(file.rows) = DatesOf(loaded[1].rows) \cup DatesOf(new_df[1])

\* C22: a run that finds no file, or that has extracted no record from all
\* its files, is at its exit: it has not loaded the table and the file is
\* the file of the start of the run
C22_EmptyRunLeavesStore ==
    \A p \in Procs :
        (Extracted(p) /\ all_data[p] = <<>>) =>
            /\ pc[p] = "exit"
            /\ loaded[p] = NoFile
            /\ final_df[p] = <<>>
            /\ file = before[p]

\* C22 witness: a run whose files all yielded no record has ended, the table
\* of an earlier run in place
C22_Witness ==
    /\ pc[1] = "exit"
    /\ FilesOf(1) # <<>>
    /\ all_data[1] = <<>>
    /\ file.complete /\ file.rows # <<>>
    /\ file = before[1]

\* C23: in the scripts that read a mailbox the files of a run have distinct
\* data dates; a message claims its data date exactly when it has a matching
\* attachment and no message examined before it with a matching attachment
\* has that date, and the file of the date is an attachment of that message
C23_OneFilePerDate ==
    \A p \in Procs :
        (pc[p] \notin {"idle", "collect"} /\ variant[p] \in MailVariants) =>
            LET exam == IF variant[p] = "imap" THEN Reverse(inbox[p]) ELSE inbox[p]
                date(i) == get_data_date(exam[i].ts)
                claims(i) == /\ exam[i].parts # <<>>
                             /\ \A j \in 1..(i - 1) :
                                   exam[j].parts # <<>> => date(j) # date(i)
                files == FilesOf(p)
            IN  /\ \A a, b \in 1..Len(files) : files[a].date = files[b].date => a = b
                /\ {files[a].date : a \in 1..Len(files)}
                       = {date(i) : i \in {j \in 1..Len(exam) : claims(j)}}
                /\ \A i \in 1..Len(exam) :
                      claims(i) => \E a \in 1..Len(files) :
                                      /\ files[a].date = date(i)
                                      /\ files[a].sheet \in Range(exam[i].parts)
                /\ \E k \in 0..Len(files) :
                      files_found[p] = SubSeq(files, k + 1, Len(files))

\* C23 witness: of two messages of the same data date, both with a matching
\* attachment, the first has given the one file of the run
C23_Witness ==
    /\ pc[1] = "extract"
    /\ variant[1] = "gmail_api"
    /\ Len(inbox[1]) = 2
    /\ get_data_date(inbox[1][1].ts) = get_data_date(inbox[1][2].ts)
    /\ inbox[1][1].parts = <<CountSheet("positional", BaseCounts)>>
    /\ inbox[1][2].parts # <<>>
    /\ inbox[1][2].parts # inbox[1][1].parts
    /\ files_found[1] = <<Found(1, CountSheet("positional", BaseCounts))>>

\* C24: for a venue of the table and an hour in 0..26, is_venue_open is true
\* only inside the window (open, close) of the weekday: from open up to
\* close, or before close - 24 when close is past midnight; it is false for
\* every hour at or past close, as hours 25 and 26 of a Saturday (12, 25)
C24_OpenOnlyInWindow ==
    (/\ answer # "none"
     /\ query.venue \in DOMAIN VENUE_OPERATING_HOURS
     /\ query.hour \in 0..26) =>
        LET pair == VENUE_OPERATING_HOURS[query.venue][query.date % 7]
            open == pair[1]
            close == pair[2]
            h == query.hour
        IN  /\ h >= close => answer = "closed"
            /\ answer = "open" =>
                   \/ open <= h /\ h < close
                   \/ close > 24 /\ h < close - 24
            /\ (query.date = 5 /\ h \in {25, 26}) => answer = "closed"

====
